---- MODULE Spec2Model ----
(***************************************************************************)
(* UDI label generation (KleinMed-AG/gtin, scripts/).                      *)
(*                                                                         *)
(* Two batch entry points are modelled:                                    *)
(*   "labels" : scripts/generate_udi_labels.py  (main, create_label_pdf,   *)
(*              create_csv_file)                                           *)
(*   "udi"    : scripts/generate_udi.py         (module-level script)      *)
(* Strings are sequences of one-character strings, so that formatting,     *)
(* parsing and slicing are computed and not assumed.                       *)
(***************************************************************************)
EXTENDS Integers, Sequences, FiniteSets, TLC

VARIABLES
    pc,            \* position of the running script
    entry,         \* which entry point runs: "labels", "udi" or "none"
    product_name,  \* INPUT_PRODUCT of generate_udi.py
    gtin,          \* product["gtin"]
    mfg_date,      \* --mfg-date / INPUT_DATE, as typed
    serial_start,  \* --serial-start / INPUT_SERIAL_START
    count,         \* --count / INPUT_COUNT
    i,             \* loop index of the page loop
    fs,            \* state of each asset file as load_image_safe finds it
    img,           \* assets for which load_image_safe returned an image
    warnings,      \* assets for which load_image_safe printed a warning
    canvasOpen,    \* a canvas.Canvas has been constructed
    pages,         \* pages finished by showPage
    cur,           \* draw operations of the page being drawn
    pdfSaved,      \* c.save() has written the document
    pdf,           \* pages of the written document
    csvWritten,    \* the CSV file has been opened for writing
    csv,           \* rows of the CSV file
    catalog,       \* product name -> last_serial (docs/data/product_db.json)
    mainRet,       \* value returned by main(): "unset", "None" or "1"
    errors,        \* error messages / exceptions of the run
    exitStatus,    \* process exit status, -1 while the process runs
    runs,          \* number of runs started
    res,           \* result of a pure function application
    serial_db,     \* product name -> lastSerial (product_db.json of update_serial.py)
    qr_size_original  \* qr_size_original of create_label_pdf, in micro-points

vars == << pc, entry, product_name, gtin, mfg_date, serial_start, count, i, fs,
           img, warnings, canvasOpen, pages, cur, pdfSaved, pdf, csvWritten,
           csv, catalog, mainRet, errors, exitStatus, runs, res, serial_db,
           qr_size_original >>

(***************************************************************************)
(* Bounds                                                                  *)
(***************************************************************************)
MaxCount == 2
MaxRuns == 2

(***************************************************************************)
(* Characters and Python string primitives                                 *)
(***************************************************************************)
Digits == {"0", "1", "2", "3", "4", "5", "6", "7", "8", "9"}

DigitChar(d) ==
    CASE d = 0 -> "0" [] d = 1 -> "1" [] d = 2 -> "2" [] d = 3 -> "3"
      [] d = 4 -> "4" [] d = 5 -> "5" [] d = 6 -> "6" [] d = 7 -> "7"
      [] d = 8 -> "8" [] d = 9 -> "9"

DigitVal(c) ==
    CASE c = "0" -> 0 [] c = "1" -> 1 [] c = "2" -> 2 [] c = "3" -> 3
      [] c = "4" -> 4 [] c = "5" -> 5 [] c = "6" -> 6 [] c = "7" -> 7
      [] c = "8" -> 8 [] c = "9" -> 9

\* str(n) for a non-negative int
RECURSIVE NatStr(_)
NatStr(n) ==
    IF n < 10 THEN << DigitChar(n) >>
    ELSE NatStr(n \div 10) \o << DigitChar(n % 10) >>

\* str(n), the conversion an f-string applies to an int
PyStrInt(n) == IF n < 0 THEN << "-" >> \o NatStr(0 - n) ELSE NatStr(n)

\* s.strip() restricted to the blank character
RECURSIVE PyLStrip(_)
PyLStrip(s) ==
    IF s # << >> /\ Head(s) = " " THEN PyLStrip(Tail(s)) ELSE s

RECURSIVE PyRStrip(_)
PyRStrip(s) ==
    IF s # << >> /\ s[Len(s)] = " " THEN PyRStrip(SubSeq(s, 1, Len(s) - 1))
    ELSE s

PyStrip(s) == PyRStrip(PyLStrip(s))

\* the digit part of an int literal: digits, single underscores between them
PyDigitPart(u) ==
    /\ u # << >>
    /\ u[1] \in Digits
    /\ u[Len(u)] \in Digits
    /\ \A k \in 1..Len(u) : u[k] \in Digits \cup {"_"}
    /\ \A k \in 1..(Len(u) - 1) : ~(u[k] = "_" /\ u[k + 1] = "_")

PyUnsigned(s) ==
    LET t == PyStrip(s)
    IN  IF t # << >> /\ Head(t) \in {"+", "-"} THEN Tail(t) ELSE t

\* int(s) does not raise ValueError
PyIntOk(s) == PyDigitPart(PyUnsigned(s))

RECURSIVE PyDigitsVal(_)
PyDigitsVal(u) ==
    IF u = << >> THEN 0
    ELSE IF u[Len(u)] = "_" THEN PyDigitsVal(SubSeq(u, 1, Len(u) - 1))
    ELSE 10 * PyDigitsVal(SubSeq(u, 1, Len(u) - 1)) + DigitVal(u[Len(u)])

\* int(s), defined when PyIntOk(s)
PyInt(s) ==
    LET t == PyStrip(s)
    IN  IF Head(t) = "-" THEN 0 - PyDigitsVal(PyUnsigned(s))
        ELSE PyDigitsVal(PyUnsigned(s))

\* s.isdigit()
PyIsDigit(s) == s # << >> /\ \A k \in 1..Len(s) : s[k] \in Digits

(***************************************************************************)
(* Identifier model                                                        *)
(***************************************************************************)
AI01 == << "(", "0", "1", ")" >>
AI11 == << "(", "1", "1", ")" >>
AI21 == << "(", "2", "1", ")" >>

\* the serial element placed before the date element
generate_udi_string_reordered(g, d, serial) ==
    AI01 \o g \o AI21 \o PyStrInt(serial) \o AI11 \o d

\* generate_udi_labels.py: f"(01){gtin}(11){mfg_date}(21){serial}"
generate_udi_string(g, d, serial) ==
    AI01 \o g \o AI11 \o d \o AI21 \o PyStrInt(serial)

\* generate_udi.py: f"(01){gtin}(11){date}(21){sn}"
make_udi(g, d, sn) ==
    AI01 \o g \o AI11 \o d \o AI21 \o PyStrInt(sn)

\* utils.py: f"(01){gtin}(11){date}(21){sn}"
utils_make_udi(g, d, sn) ==
    AI01 \o g \o AI11 \o d \o AI21 \o PyStrInt(sn)

\* validate_manufacturing_date: the value returned or the ValueError raised
validate_manufacturing_date(d) ==
    IF Len(d) # 6
    THEN [ok |-> FALSE, reason |-> "length", value |-> << >>]
    ELSE IF ~(/\ PyIntOk(SubSeq(d, 1, 2))
              /\ PyIntOk(SubSeq(d, 3, 4))
              /\ PyIntOk(SubSeq(d, 5, 6)))
    THEN [ok |-> FALSE, reason |-> "digits", value |-> << >>]
    ELSE LET month == PyInt(SubSeq(d, 3, 4))
             day == PyInt(SubSeq(d, 5, 6))
         IN  IF month < 1 \/ month > 12
             THEN [ok |-> FALSE, reason |-> "month", value |-> << >>]
             ELSE IF day < 1 \/ day > 31
             THEN [ok |-> FALSE, reason |-> "day", value |-> << >>]
             ELSE [ok |-> TRUE, reason |-> "none", value |-> d]

\* generate_udi.py: if not date_yymmdd.isdigit() or len(date_yymmdd) != 6
inline_date_check(d) ==
    IF ~PyIsDigit(d) \/ Len(d) # 6
    THEN [ok |-> FALSE, reason |-> "format", value |-> << >>]
    ELSE [ok |-> TRUE, reason |-> "none", value |-> d]

(***************************************************************************)
(* Inputs of a run                                                         *)
(***************************************************************************)
ProductNames == {"A", "B"}

\* product["gtin"] of the catalog entries (shortened digit strings)
ProductGtin == [p \in ProductNames |->
                  IF p = "A" THEN << "0", "4", "7" >> ELSE << "1", "2", "0" >>]

\* names asked for on the command line, one of them not in the catalog
RequestedNames == ProductNames \cup {"X"}

SerialStarts == {-1, 9}

Counts == (-1)..MaxCount

RunDates ==
    { << "2", "6", "0", "1", "0", "1" >>,
      << "2", "6", "1", "3", "0", "1" >>,
      << "2", "6", "0", "1", "3", "2" >>,
      << "2", "6", "A", "B", "0", "1" >>,
      << "2", "6", "0", "1", "0", "1", "9" >>,
      << "2", "6", "+", "1", "+", "1" >>,
      << "2", "6", "-", "1", "0", "1" >> }

Assets == {"logo", "ce_mark", "md_symbol", "manufacturer_symbol",
           "manufacturer_symbol_empty", "ec_rep_symbol", "sn_symbol",
           "udi_symbol", "spec_symbols"}

AllOk == [a \in Assets |-> "ok"]

\* asset files on disk: present and readable, absent, or present but unreadable;
\* all loadable, one asset unloadable, or none loadable
FsStates ==
    {AllOk}
      \cup { [a \in Assets |-> IF a = b THEN st ELSE "ok"] :
               b \in Assets, st \in {"absent", "unreadable"} }
      \cup { [a \in Assets |-> st] : st \in {"absent", "unreadable"} }

(***************************************************************************)
(* Assets and draw operations                                              *)
(***************************************************************************)
\* load_image_safe(path) for a file in state st
load_image_safe(st) ==
    IF st # "absent"
    THEN IF st = "ok" THEN [image |-> TRUE, warned |-> FALSE]
         ELSE [image |-> FALSE, warned |-> TRUE]
    ELSE [image |-> FALSE, warned |-> FALSE]

(***************************************************************************)
(* Lengths are integers in micro-points (1 pt = 1000000); a product of the *)
(* code's float factors is taken factor by factor and floored.             *)
(***************************************************************************)
\* floor(x * n / d) for x >= 0, without leaving 32 bits
Mul(x, n, d) == (x \div d) * n + ((x % d) * n) \div d

Half(x) == x \div 2

Max(x, y) == IF x >= y THEN x ELSE y

\* reportlab.lib.pagesizes.inch
inch == 72000000

\* PAGE_WIDTH, PAGE_HEIGHT = landscape(A4): 297 mm x 210 mm
PAGE_WIDTH == 841889764
PAGE_HEIGHT == 595275591

\* GLOBAL_SCALE = 1.08
Global(x) == Mul(x, 108, 100)

\* c.stringWidth("GTIN", "Helvetica-Bold", size): glyph widths 778+611+278+722
GtinLabelWidth(size) == Mul(size, 2389, 1000)

\* qr_size_original = 0.72 * inch
QrSizeOriginal == Mul(inch, 72, 100)

\* c.drawString(x, y, s)
drawString(x, y, s) ==
    << [kind |-> "text", s |-> s, x |-> x, y |-> y, w |-> 0, h |-> 0] >>

\* if asset: c.drawImage(asset, x, y, width=w, height=h, ...)
drawAsset(a, im, x, y, w, h) ==
    IF a \in im
    THEN << [kind |-> "image", s |-> << a >>, x |-> x, y |-> y, w |-> w, h |-> h] >>
    ELSE << >>

\* the bitmap of generate_qr_code(data, target_px), named by the data it encodes
generate_qr_code(data) == [kind |-> "qr", s |-> data]

\* c.drawImage(qr_img, x, y, width=w, height=h)
drawQr(qr_img, x, y, w, h) ==
    << [kind |-> qr_img.kind, s |-> qr_img.s, x |-> x, y |-> y, w |-> w, h |-> h] >>

\* the box of the UDI icon placed at the QR centre regardless of the QR size
UdiIconBox_FromQrBottom(qr_x, qr_y, qr_size) ==
    LET udi_icon_y == qr_y
        udi_icon_size == Global(Mul(Mul(Mul(inch, 22, 100), 90, 100), 120, 100))
        udi_qr_gap == Mul(inch, 8, 100)
        udi_icon_x == qr_x - udi_icon_size - udi_qr_gap - 27800000
        udi_icon_y_adjusted == udi_icon_y + 17900000
    IN  [x |-> udi_icon_x, y |-> udi_icon_y_adjusted - Half(udi_icon_size),
         w |-> udi_icon_size, h |-> udi_icon_size]

\* create_label_pdf, "UDI label": the box the UDI icon is drawn in
UdiIconBox(qr_x, qr_y, qr_size) ==
    LET udi_icon_y == qr_y + Half(qr_size)
        udi_icon_size == Global(Mul(Mul(Mul(inch, 22, 100), 90, 100), 120, 100))
        udi_qr_gap == Mul(inch, 8, 100)
        udi_icon_x == qr_x - udi_icon_size - udi_qr_gap - 27800000
        udi_icon_y_adjusted == udi_icon_y + 17900000
    IN  [x |-> udi_icon_x, y |-> udi_icon_y_adjusted - Half(udi_icon_size),
         w |-> udi_icon_size, h |-> udi_icon_size]

\* one iteration of the page loop of create_label_pdf, after its showPage, with
\* qr_size_original as a parameter
LabelPageAt(g, d, serial, im, qr_orig) ==
    LET udi_payload == generate_udi_string(g, d, serial)
        left_margin == Mul(inch, 5, 10)
        top_margin == Mul(inch, 5, 10)
        right_margin == Mul(inch, 5, 10)
        usable_width == PAGE_WIDTH - left_margin - right_margin
        left_column_width == Mul(usable_width, 62, 100)
        column_gap == Mul(inch, 10, 100)
        right_column_left == left_margin + left_column_width + column_gap
        \* === LEFT COLUMN ===
        left_y_0 == PAGE_HEIGHT - top_margin
        \* logo
        logo_w == Global(Mul(Mul(Mul(inch, 86, 100), 158, 100), 142, 100))
        logo_h == Global(Mul(Mul(Mul(inch, 25, 100), 158, 100), 142, 100))
        logo_x == left_margin + 6000000 + 16000000
        logo_y_shift == 4000000 + 7100000
        left_y_1 == IF "logo" \in im
                    THEN left_y_0 - (logo_h + Mul(inch, 16, 100) - logo_y_shift)
                    ELSE left_y_0
        \* product title block
        product_name_y_shift == 8000000 + 12500000
        product_name_x == left_margin + 18500000
        product_line_spacing == Mul(6000000, 110, 100)
        name_y_1 == left_y_1 + product_name_y_shift
        name_y_2 == name_y_1 - product_line_spacing
        name_y_3 == name_y_2 - product_line_spacing
        name_y_4 == name_y_3 - product_line_spacing
        left_y_2 == name_y_4 - 8000000
        \* indication paragraph
        description_y_shift == 6000000 + 16700000
        description_x == left_margin + 19400000
        line_spacing == Mul(5500000, 108, 100)
        desc_y_1 == left_y_2 + description_y_shift
        desc_y_2 == desc_y_1 - line_spacing
        desc_y_3 == desc_y_2 - line_spacing
        desc_y_4 == desc_y_3 - line_spacing
        left_y_3 == desc_y_4 - 14000000
        \* manufacturer block
        icon_text_gap == Mul(inch, 4, 100)
        left_margin_adjusted_mfr == left_margin + 15000000 - 4000000 + 13500000
        manufacturer_y_shift == 6000000 + 19600000
        manufacturer_text_height == 18500000
        manufacturer_icon_size ==
            Global(Mul(Mul(manufacturer_text_height, 85, 100), 98, 100))
        mfr_y_1 == left_y_3 + manufacturer_y_shift
        mfr_text_x == left_margin_adjusted_mfr + manufacturer_icon_size + icon_text_gap
        manufacturer_start_y == mfr_y_1
        mfr_y_2 == mfr_y_1 - 6500000
        mfr_y_3 == mfr_y_2 - 6000000
        mfr_center_y == manufacturer_start_y - Half(manufacturer_text_height)
        mfr_icon_y == mfr_center_y - Half(manufacturer_icon_size) + 5000000
        left_y_4 == mfr_y_3 - (8000000 - manufacturer_y_shift)
        \* EC REP block
        left_margin_adjusted_ec == left_margin + 9000000 + 15200000
        ec_rep_y_shift == 21400000
        ec_rep_text_height == 12500000
        ec_rep_icon_size == Global(Mul(ec_rep_text_height, 175, 100))
        ec_y_1 == left_y_4 + ec_rep_y_shift
        ec_text_x == left_margin_adjusted_ec + ec_rep_icon_size + icon_text_gap
        ec_rep_start_y == ec_y_1
        ec_y_2 == ec_y_1 - 6500000
        ec_y_3 == ec_y_2 - 6000000
        ec_center_y == ec_rep_start_y - Half(ec_rep_text_height)
        ec_icon_y == ec_center_y - Half(ec_rep_icon_size) + 1000000
        ec_rep_text_end_y == ec_y_3
        \* === RIGHT COLUMN ===
        right_y_0 == PAGE_HEIGHT - top_margin
        symbol_row_y == right_y_0 - Mul(inch, 2, 100) - 6000000 + 3600000
        symbol_size == Global(Mul(Mul(Mul(inch, 13, 100), 125, 100), 122, 100))
        symbol_spacing == Mul(inch, 4, 100)
        current_x_0 == PAGE_WIDTH - right_margin - symbol_size - 14300000
        ce_mark_right_edge == current_x_0 + symbol_size
        current_x_1 == IF "ce_mark" \in im
                       THEN current_x_0 - (symbol_size + symbol_spacing)
                       ELSE current_x_0
        current_x_2 == IF "md_symbol" \in im
                       THEN current_x_1 - (symbol_size + symbol_spacing)
                       ELSE current_x_1
        spec_w == Global(Mul(Mul(Mul(inch, 112, 100), 145, 100), 120, 100))
        spec_h == Global(Mul(Mul(Mul(inch, 16, 100), 145, 100), 120, 100))
        spec_x == current_x_2 - spec_w + 15000000 - 20200000
        spec_y == symbol_row_y - Mul(Mul(inch, 13, 100), 125, 100) - 5400000
        right_y_1 == right_y_0 - Mul(inch, 28, 100) - 10000000
        \* GTIN/LOT/SN blocks
        block_spacing == 11000000
        identifier_base_x == right_column_left + 2000000 + 4000000 - 25300000
        icon_size_small == Global(Mul(Mul(inch, 22, 100), 90, 100))
        icon_number_gap == Mul(inch, 5, 100) + 1000000
        gtin_font_size ==
            Global(Mul(Mul(Mul(6500000, 85, 100), 110, 100), 110, 100))
        gtin_y_shift == 6500000 - 2000000
        gtin_label_width == GtinLabelWidth(gtin_font_size)
        max_label_width == Max(gtin_label_width, icon_size_small)
        number_start_x == identifier_base_x + max_label_width + icon_number_gap
        right_y_2 == right_y_1 - block_spacing
        lot_identifier_x == right_column_left + 2000000 - 26100000
        lot_y_shift == 11900000
        lot_icon_size == Mul(icon_size_small, 115, 100)
        lot_number_x == lot_identifier_x + max_label_width + icon_number_gap
        right_y_3 == right_y_2 - block_spacing
        sn_identifier_x == right_column_left + 2000000 + 12000000 - 26100000
        sn_y_shift == 16700000
        sn_icon_size == Mul(icon_size_small, 112, 100)
        sn_number_x == sn_identifier_x + max_label_width + icon_number_gap
        \* QR code
        qr_size == Global(Mul(Mul(qr_orig, 135, 100), 128, 100))
        qr_img == generate_qr_code(udi_payload)
        qr_x == ce_mark_right_edge - qr_size - 30300000
        qr_y == ec_rep_text_end_y - 10000000 + 19000000
        udi_box == UdiIconBox(qr_x, qr_y, qr_size)
    IN  drawAsset("logo", im, logo_x, left_y_0 - logo_h + logo_y_shift,
                  logo_w, logo_h)
        \o drawString(product_name_x, name_y_1, << "name_de" >>)
        \o drawString(product_name_x, name_y_2, << "name_en" >>)
        \o drawString(product_name_x, name_y_3, << "name_fr" >>)
        \o drawString(product_name_x, name_y_4, << "name_it" >>)
        \o drawString(description_x, desc_y_1, << "description_de" >>)
        \o drawString(description_x, desc_y_2, << "description_en" >>)
        \o drawString(description_x, desc_y_3, << "description_fr" >>)
        \o drawString(description_x, desc_y_4, << "description_it" >>)
        \o drawString(mfr_text_x, mfr_y_1, << "manufacturer.name" >>)
        \o drawString(mfr_text_x, mfr_y_2, << "manufacturer.address_line1" >>)
        \o drawString(mfr_text_x, mfr_y_3, << "manufacturer.address_line2" >>)
        \o drawAsset("manufacturer_symbol", im, left_margin_adjusted_mfr,
                     mfr_icon_y, manufacturer_icon_size, manufacturer_icon_size)
        \o drawString(ec_text_x, ec_y_1, << "distributor.name" >>)
        \o drawString(ec_text_x, ec_y_2, << "distributor.address_line1" >>)
        \o drawString(ec_text_x, ec_y_3, << "distributor.address_line2" >>)
        \o drawAsset("ec_rep_symbol", im, left_margin_adjusted_ec, ec_icon_y,
                     ec_rep_icon_size, ec_rep_icon_size)
        \o drawAsset("ce_mark", im, current_x_0, symbol_row_y - symbol_size,
                     symbol_size, symbol_size)
        \o drawAsset("md_symbol", im, current_x_1, symbol_row_y - symbol_size,
                     symbol_size, symbol_size)
        \o drawAsset("spec_symbols", im, spec_x, spec_y, spec_w, spec_h)
        \o drawString(identifier_base_x, right_y_1 + gtin_y_shift, << "GTIN" >>)
        \o drawString(number_start_x, right_y_1 + gtin_y_shift, AI01 \o g)
        \o drawAsset("manufacturer_symbol_empty", im, lot_identifier_x,
                     right_y_2 - Mul(lot_icon_size, 55, 100) + 2000000
                         + lot_y_shift,
                     lot_icon_size, lot_icon_size)
        \o drawString(lot_number_x, right_y_2 + lot_y_shift, AI11 \o d)
        \o drawAsset("sn_symbol", im, sn_identifier_x,
                     right_y_3 - Mul(sn_icon_size, 55, 100) + sn_y_shift,
                     sn_icon_size, sn_icon_size)
        \o drawString(sn_number_x, right_y_3 + sn_y_shift,
                      AI21 \o PyStrInt(serial))
        \o drawQr(qr_img, qr_x, qr_y, qr_size, qr_size)
        \o drawAsset("udi_symbol", im, udi_box.x, udi_box.y, udi_box.w, udi_box.h)

\* one iteration of the page loop of create_label_pdf, after its showPage
LabelPage(g, d, serial, im) == LabelPageAt(g, d, serial, im, QrSizeOriginal)

\* one iteration of the label loop of generate_udi.py, before its showPage
UdiPage(name, g, d, sn) ==
    LET udi == make_udi(g, d, sn)
    IN  drawString(20000000, 800000000, << "Produkt: ", name >>)
        \o drawString(20000000, 780000000, << "GTIN: " >> \o g)
        \o drawString(20000000, 760000000, << "Herstelldatum (AI11): " >> \o d)
        \o drawString(20000000, 740000000, << "Seriennummer: " >> \o PyStrInt(sn))
        \o drawString(20000000, 720000000, << "UDI: " >> \o udi)
        \o drawQr(generate_qr_code(udi), 350000000, 680000000, 150000000,
                  150000000)

(***************************************************************************)
(* Tabular export                                                          *)
(***************************************************************************)
CsvHeader ==
    << << "AI - GTIN" >>, << "Artikelnummer/GTIN" >>, << "Name" >>,
       << "Grund-einheit" >>, << "SN/LOT" >>, << "Kurztext I" >>,
       << "Warengruppe" >>, << "AI - Herstelldatum" >>, << "Herstelldatum" >>,
       << "AI - SN" >>, << "Seriennummer" >>, << "UDI" >>, << "GTIN-Etikett" >>,
       << "Herstelldatum-Ettkett" >>, << "Seriennummer-Etikett" >>, << "QR" >>,
       << "QR-Code" >> >>

QrUrlPrefix == << "https://image-charts.com/chart?cht=qr&chs=250x250&chl=" >>

\* the row written for one serial by create_csv_file
CsvRow(g, d, serial) ==
    LET udi == generate_udi_string(g, d, serial)
        qr_url == QrUrlPrefix \o udi
    IN  << AI01, g, << "name_de" >>, << "grundeinheit" >>, << "sn_lot_type" >>,
           << "kurztext" >>, << "warengruppe" >>, AI11, d, AI21,
           PyStrInt(serial), udi, AI01 \o g, AI11 \o d,
           AI21 \o PyStrInt(serial), udi, qr_url >>

\* for i in range(n): writer.writerow(...)
RECURSIVE CsvRows(_, _, _, _)
CsvRows(g, d, start, n) ==
    IF n <= 0 THEN << >>
    ELSE Append(CsvRows(g, d, start, n - 1), CsvRow(g, d, start + (n - 1)))

\* create_csv_file: header row, then one row per serial
create_csv_file(g, d, start, n) == << CsvHeader >> \o CsvRows(g, d, start, n)

(***************************************************************************)
(* Canvas                                                                  *)
(***************************************************************************)
\* the pages of the document c.save() writes: a page with content is shown first
SavedPages(ps, page) == IF page # << >> THEN Append(ps, page) ELSE ps

(***************************************************************************)
(* Initial state and start of a run                                        *)
(***************************************************************************)
\* no pure function has been applied
NoResult == [fn |-> "none", ok |-> FALSE, reason |-> "none", out |-> << >>]

Returned(f, s) == [fn |-> f, ok |-> TRUE, reason |-> "none", out |-> s]

\* no process has run yet
Idle ==
    /\ entry = "none"
    /\ product_name = "A"
    /\ count = 0
    /\ i = 0
    /\ fs = AllOk
    /\ img = {}
    /\ warnings = {}
    /\ canvasOpen = FALSE
    /\ pages = << >>
    /\ cur = << >>
    /\ pdfSaved = FALSE
    /\ pdf = << >>
    /\ csvWritten = FALSE
    /\ csv = << >>
    /\ catalog = [p \in ProductNames |-> 0]
    /\ serial_db = [p \in ProductNames |-> 0]
    /\ mainRet = "unset"
    /\ errors = << >>
    /\ exitStatus = -1
    /\ runs = 0

Init ==
    /\ pc = "idle"
    /\ gtin = << >>
    /\ mfg_date = << >>
    /\ serial_start = 0
    /\ Idle
    /\ qr_size_original = QrSizeOriginal
    /\ res = NoResult

\* a fresh process: nothing of the previous run survives but the catalog file
FreshRun ==
    /\ i' = 0
    /\ img' = {}
    /\ warnings' = {}
    /\ canvasOpen' = FALSE
    /\ pages' = << >>
    /\ cur' = << >>
    /\ pdfSaved' = FALSE
    /\ pdf' = << >>
    /\ csvWritten' = FALSE
    /\ csv' = << >>
    /\ mainRet' = "unset"
    /\ errors' = << >>
    /\ exitStatus' = -1
    /\ runs' = runs + 1
    /\ UNCHANGED << catalog, res,
                    serial_db, qr_size_original >>

\* python generate_udi_labels.py --product-json .. --mfg-date .. --serial-start .. --count ..
StartLabels ==
    /\ pc \in {"idle", "exited"}
    /\ runs < MaxRuns
    /\ \E p \in ProductNames, d \in RunDates, s \in SerialStarts, n \in Counts :
          /\ product_name' = p
          /\ gtin' = ProductGtin[p]
          /\ mfg_date' = d
          /\ serial_start' = s
          /\ count' = n
    /\ fs' = AllOk
    /\ entry' = "labels"
    /\ pc' = "L_validate"
    /\ FreshRun

\* python generate_udi.py with INPUT_PRODUCT, INPUT_DATE, INPUT_SERIAL_START, INPUT_COUNT
StartUdi ==
    /\ pc \in {"idle", "exited"}
    /\ runs < MaxRuns
    /\ \E p \in RequestedNames, d \in RunDates, s \in SerialStarts, n \in Counts :
          /\ product_name' = p
          /\ mfg_date' = d
          /\ serial_start' = s
          /\ count' = n
    /\ gtin' = << >>
    /\ fs' = AllOk
    /\ entry' = "udi"
    /\ pc' = "U_date"
    /\ FreshRun

(***************************************************************************)
(* generate_udi_labels.py                                                  *)
(***************************************************************************)
\* main: validate the date; on ValueError print it and return 1
L_Validate ==
    /\ pc = "L_validate"
    /\ LET r == validate_manufacturing_date(mfg_date)
       IN  IF r.ok
           THEN /\ pc' = "L_canvas"
                /\ UNCHANGED << errors, mainRet >>
           ELSE /\ pc' = "L_return"
                /\ errors' = Append(errors, r.reason)
                /\ mainRet' = "1"
    /\ UNCHANGED << entry, product_name, gtin, mfg_date, serial_start, count, i,
                    fs, img, warnings, canvasOpen, pages, cur, pdfSaved, pdf,
                    csvWritten, csv, catalog, exitStatus, runs, res,
                    serial_db, qr_size_original >>

\* create_label_pdf: the canvas and the nine load_image_safe calls
L_Canvas ==
    /\ pc = "L_canvas"
    /\ canvasOpen' = TRUE
    /\ \E f \in FsStates :
          /\ fs' = f
          /\ img' = {a \in Assets : load_image_safe(f[a]).image}
          /\ warnings' = {a \in Assets : load_image_safe(f[a]).warned}
    /\ i' = 0
    /\ pc' = "L_loop"
    /\ UNCHANGED << entry, product_name, gtin, mfg_date, serial_start, count,
                    pages, cur, pdfSaved, pdf, csvWritten, csv, catalog, mainRet,
                    errors, exitStatus, runs, res,
                    serial_db, qr_size_original >>

\* the page loop calling showPage before every page, the first included
L_Page_ShowPageAlways ==
    /\ pc = "L_loop"
    /\ i < count
    /\ pages' = Append(pages, cur)
    /\ cur' = LabelPageAt(gtin, mfg_date, serial_start + i, img, qr_size_original)
    /\ i' = i + 1
    /\ UNCHANGED << pc, entry, product_name, gtin, mfg_date, serial_start, count,
                    fs, img, warnings, canvasOpen, pdfSaved, pdf, csvWritten, csv,
                    catalog, mainRet, errors, exitStatus, runs, res,
                    serial_db, qr_size_original >>

\* create_label_pdf: one iteration of for i in range(count)
L_Page ==
    /\ pc = "L_loop"
    /\ i < count
    /\ pages' = IF i > 0 THEN Append(pages, cur) ELSE pages
    /\ cur' = LabelPageAt(gtin, mfg_date, serial_start + i, img, qr_size_original)
    /\ i' = i + 1
    /\ UNCHANGED << pc, entry, product_name, gtin, mfg_date, serial_start, count,
                    fs, img, warnings, canvasOpen, pdfSaved, pdf, csvWritten, csv,
                    catalog, mainRet, errors, exitStatus, runs, res,
                    serial_db, qr_size_original >>

\* create_label_pdf: c.save() after the loop
L_Save ==
    /\ pc = "L_loop"
    /\ i >= count
    /\ pages' = SavedPages(pages, cur)
    /\ cur' = << >>
    /\ pdf' = SavedPages(pages, cur)
    /\ pdfSaved' = TRUE
    /\ pc' = "L_csv"
    /\ UNCHANGED << entry, product_name, gtin, mfg_date, serial_start, count, i,
                    fs, img, warnings, canvasOpen, csvWritten, csv, catalog,
                    mainRet, errors, exitStatus, runs, res,
                    serial_db, qr_size_original >>

\* create_csv_file, then main falls off its end and returns None
L_Csv ==
    /\ pc = "L_csv"
    /\ csvWritten' = TRUE
    /\ csv' = create_csv_file(gtin, mfg_date, serial_start, count)
    /\ mainRet' = "None"
    /\ pc' = "L_return"
    /\ UNCHANGED << entry, product_name, gtin, mfg_date, serial_start, count, i,
                    fs, img, warnings, canvasOpen, pages, cur, pdfSaved, pdf,
                    catalog, errors, exitStatus, runs, res,
                    serial_db, qr_size_original >>

\* if __name__ == "__main__": main()   -- the value main returned is dropped
L_Exit ==
    /\ pc = "L_return"
    /\ exitStatus' = 0
    /\ pc' = "exited"
    /\ UNCHANGED << entry, product_name, gtin, mfg_date, serial_start, count, i,
                    fs, img, warnings, canvasOpen, pages, cur, pdfSaved, pdf,
                    csvWritten, csv, catalog, mainRet, errors, runs, res,
                    serial_db, qr_size_original >>

(***************************************************************************)
(* generate_udi.py: an uncaught ValueError ends the process with status 1  *)
(***************************************************************************)
U_CheckDate ==
    /\ pc = "U_date"
    /\ IF inline_date_check(mfg_date).ok
       THEN /\ pc' = "U_count"
            /\ UNCHANGED << errors, exitStatus >>
       ELSE /\ pc' = "exited"
            /\ errors' = Append(errors, "format")
            /\ exitStatus' = 1
    /\ UNCHANGED << entry, product_name, gtin, mfg_date, serial_start, count, i,
                    fs, img, warnings, canvasOpen, pages, cur, pdfSaved, pdf,
                    csvWritten, csv, catalog, mainRet, runs, res,
                    serial_db, qr_size_original >>

U_CheckCount ==
    /\ pc = "U_count"
    /\ IF count <= 0
       THEN /\ pc' = "exited"
            /\ errors' = Append(errors, "count")
            /\ exitStatus' = 1
       ELSE /\ pc' = "U_lookup"
            /\ UNCHANGED << errors, exitStatus >>
    /\ UNCHANGED << entry, product_name, gtin, mfg_date, serial_start, count, i,
                    fs, img, warnings, canvasOpen, pages, cur, pdfSaved, pdf,
                    csvWritten, csv, catalog, mainRet, runs, res,
                    serial_db, qr_size_original >>

\* product = next((p for p in products if p["name"] == product_name), None)
U_Lookup ==
    /\ pc = "U_lookup"
    /\ IF product_name \in ProductNames
       THEN /\ gtin' = ProductGtin[product_name]
            /\ pc' = "U_canvas"
            /\ UNCHANGED << errors, exitStatus >>
       ELSE /\ pc' = "exited"
            /\ errors' = Append(errors, "product")
            /\ exitStatus' = 1
            /\ UNCHANGED gtin
    /\ UNCHANGED << entry, product_name, mfg_date, serial_start, count, i, fs,
                    img, warnings, canvasOpen, pages, cur, pdfSaved, pdf,
                    csvWritten, csv, catalog, mainRet, runs, res,
                    serial_db, qr_size_original >>

U_Canvas ==
    /\ pc = "U_canvas"
    /\ canvasOpen' = TRUE
    /\ i' = 0
    /\ pc' = "U_loop"
    /\ UNCHANGED << entry, product_name, gtin, mfg_date, serial_start, count, fs,
                    img, warnings, pages, cur, pdfSaved, pdf, csvWritten, csv,
                    catalog, mainRet, errors, exitStatus, runs, res,
                    serial_db, qr_size_original >>

\* one iteration of for i in range(count), ending with c.showPage()
U_Page ==
    /\ pc = "U_loop"
    /\ i < count
    /\ pages' = Append(pages, cur \o UdiPage(product_name, gtin, mfg_date,
                                             serial_start + i))
    /\ cur' = << >>
    /\ i' = i + 1
    /\ UNCHANGED << pc, entry, product_name, gtin, mfg_date, serial_start, count,
                    fs, img, warnings, canvasOpen, pdfSaved, pdf, csvWritten, csv,
                    catalog, mainRet, errors, exitStatus, runs, res,
                    serial_db, qr_size_original >>

U_Save ==
    /\ pc = "U_loop"
    /\ i >= count
    /\ pages' = SavedPages(pages, cur)
    /\ cur' = << >>
    /\ pdf' = SavedPages(pages, cur)
    /\ pdfSaved' = TRUE
    /\ pc' = "U_writeback"
    /\ UNCHANGED << entry, product_name, gtin, mfg_date, serial_start, count, i,
                    fs, img, warnings, canvasOpen, csvWritten, csv, catalog,
                    mainRet, errors, exitStatus, runs, res,
                    serial_db, qr_size_original >>

\* product["last_serial"] = serial_start + count - 1; json.dump(product_db, f)
U_WriteBack ==
    /\ pc = "U_writeback"
    /\ catalog' = [catalog EXCEPT ![product_name] = serial_start + count - 1]
    /\ pc' = "U_end"
    /\ UNCHANGED << entry, product_name, gtin, mfg_date, serial_start, count, i,
                    fs, img, warnings, canvasOpen, pages, cur, pdfSaved, pdf,
                    csvWritten, csv, mainRet, errors, exitStatus, runs, res,
                    serial_db, qr_size_original >>

\* the script reaches its last statement
U_Exit ==
    /\ pc = "U_end"
    /\ exitStatus' = 0
    /\ pc' = "exited"
    /\ UNCHANGED << entry, product_name, gtin, mfg_date, serial_start, count, i,
                    fs, img, warnings, canvasOpen, pages, cur, pdfSaved, pdf,
                    csvWritten, csv, catalog, mainRet, errors, runs, res,
                    serial_db, qr_size_original >>

(***************************************************************************)
(* update_serial.py                                                        *)
(***************************************************************************)
\* --gtin values tried, one of them of no product
UpdateGtins == { ProductGtin["A"], << "9", "9" >> }

\* --last-serial values tried
LastSerials == {3, 12}

\* python update_serial.py --gtin g --last-serial n: update_product_serial sets
\* lastSerial of the first product with that gtin and writes the database back;
\* for an unknown gtin it warns and returns without writing
S_UpdateProductSerial ==
    /\ pc \in {"idle", "exited"}
    /\ runs < MaxRuns
    /\ \E g \in UpdateGtins, n \in LastSerials :
          /\ gtin' = g
          /\ IF \E q \in ProductNames : ProductGtin[q] = g
             THEN serial_db' =
                      [serial_db EXCEPT
                          ![CHOOSE q \in ProductNames : ProductGtin[q] = g] = n]
             ELSE UNCHANGED serial_db
    /\ entry' = "update_serial"
    /\ mfg_date' = << >>
    /\ serial_start' = 0
    /\ count' = 0
    /\ fs' = AllOk
    /\ i' = 0
    /\ img' = {}
    /\ warnings' = {}
    /\ canvasOpen' = FALSE
    /\ pages' = << >>
    /\ cur' = << >>
    /\ pdfSaved' = FALSE
    /\ pdf' = << >>
    /\ csvWritten' = FALSE
    /\ csv' = << >>
    /\ mainRet' = "unset"
    /\ errors' = << >>
    /\ exitStatus' = 0
    /\ runs' = runs + 1
    /\ pc' = "exited"
    /\ UNCHANGED << product_name, catalog, res, qr_size_original >>

Next ==
    \/ StartLabels
    \/ StartUdi
    \/ L_Validate
    \/ L_Canvas
    \/ L_Page
    \/ L_Save
    \/ L_Csv
    \/ L_Exit
    \/ U_CheckDate
    \/ U_CheckCount
    \/ U_Lookup
    \/ U_Canvas
    \/ U_Page
    \/ U_Save
    \/ U_WriteBack
    \/ U_Exit
    \/ S_UpdateProductSerial

Spec == Init /\ [][Next]_vars

(***************************************************************************)
(* The payload builders applied to drawn inputs                            *)
(***************************************************************************)
MaxSerial == 110

PayGtins == { << "0", "4", "7" >>, << "1", "2", "0" >>, << >>,
              << "(", "2", "1", ")" >> }

PayDates == RunDates \cup { << >> }

PaySerials == (0 - MaxSerial)..MaxSerial

PayInit ==
    /\ pc = "apply"
    /\ gtin \in PayGtins
    /\ mfg_date \in PayDates
    /\ serial_start \in PaySerials
    /\ Idle
    /\ qr_size_original = QrSizeOriginal
    /\ res = NoResult

P_GenerateUdiString ==
    /\ pc = "apply"
    /\ res' = Returned("generate_udi_string",
                       generate_udi_string(gtin, mfg_date, serial_start))
    /\ UNCHANGED << pc, entry, product_name, gtin, mfg_date, serial_start, count,
                    i, fs, img, warnings, canvasOpen, pages, cur, pdfSaved, pdf,
                    csvWritten, csv, catalog, mainRet, errors, exitStatus, runs,
                    serial_db, qr_size_original >>

P_MakeUdi ==
    /\ pc = "apply"
    /\ res' = Returned("make_udi", make_udi(gtin, mfg_date, serial_start))
    /\ UNCHANGED << pc, entry, product_name, gtin, mfg_date, serial_start, count,
                    i, fs, img, warnings, canvasOpen, pages, cur, pdfSaved, pdf,
                    csvWritten, csv, catalog, mainRet, errors, exitStatus, runs,
                    serial_db, qr_size_original >>

P_UtilsMakeUdi ==
    /\ pc = "apply"
    /\ res' = Returned("utils_make_udi",
                       utils_make_udi(gtin, mfg_date, serial_start))
    /\ UNCHANGED << pc, entry, product_name, gtin, mfg_date, serial_start, count,
                    i, fs, img, warnings, canvasOpen, pages, cur, pdfSaved, pdf,
                    csvWritten, csv, catalog, mainRet, errors, exitStatus, runs,
                    serial_db, qr_size_original >>

PayNext == P_GenerateUdiString \/ P_MakeUdi \/ P_UtilsMakeUdi

SpecPayload == PayInit /\ [][PayNext]_vars

(***************************************************************************)
(* The label layout applied to drawn asset sets and QR sizes               *)
(***************************************************************************)
\* hundredths of an inch tried for qr_size_original; the code's value is 72
QrHundredths == {25, 50, 72, 73, 100, 144}

QrSizes == { Mul(inch, n, 100) : n \in QrHundredths }

LayInit ==
    /\ pc = "layout"
    /\ gtin = ProductGtin["A"]
    /\ mfg_date = << "2", "6", "0", "1", "0", "1" >>
    /\ serial_start \in SerialStarts
    /\ Idle
    /\ qr_size_original \in QrSizes
    /\ res = NoResult

\* the loaded assets are any subset of the nine; one page is laid out
Lay_LabelPage ==
    /\ pc = "layout"
    /\ \E im \in SUBSET Assets :
          /\ img' = im
          /\ cur' = LabelPageAt(gtin, mfg_date, serial_start, im,
                                qr_size_original)
    /\ pc' = "laid"
    /\ UNCHANGED << entry, product_name, gtin, mfg_date, serial_start, count, i,
                    fs, warnings, canvasOpen, pages, pdfSaved, pdf, csvWritten,
                    csv, catalog, mainRet, errors, exitStatus, runs, res,
                    serial_db, qr_size_original >>

LayNext == Lay_LabelPage

SpecLayout == LayInit /\ [][LayNext]_vars

(***************************************************************************)
(* The date validations applied to drawn inputs                            *)
(***************************************************************************)
DateAlphabet == {"0", "1", "2", "3", "9", "+", "-", " ", "A", "_"}

Str2 == { << a, b >> : a \in DateAlphabet, b \in DateAlphabet }

YYs == { << "2", "6" >>, << "A", "6" >> }

SixChars == { yy \o mm \o dd : yy \in YYs, mm \in Str2, dd \in Str2 }

DateInputs ==
    SixChars
      \cup { SubSeq(d, 1, 5) : d \in SixChars }
      \cup { SubSeq(d, 1, 4) \o << c >> \o SubSeq(d, 5, 6) :
               d \in { yy \o << "0", "1", "0", "1" >> : yy \in YYs },
               c \in DateAlphabet }
      \cup { d \o << c >> :
               d \in { yy \o << "0", "1", "0", "1" >> : yy \in YYs },
               c \in DateAlphabet }

DateInit ==
    /\ pc = "apply"
    /\ gtin = << >>
    /\ mfg_date \in DateInputs
    /\ serial_start = 0
    /\ Idle
    /\ qr_size_original = QrSizeOriginal
    /\ res = NoResult

D_ValidateManufacturingDate ==
    /\ pc = "apply"
    /\ LET r == validate_manufacturing_date(mfg_date)
       IN  res' = [fn |-> "validate_manufacturing_date", ok |-> r.ok,
                   reason |-> r.reason, out |-> r.value]
    /\ UNCHANGED << pc, entry, product_name, gtin, mfg_date, serial_start, count,
                    i, fs, img, warnings, canvasOpen, pages, cur, pdfSaved, pdf,
                    csvWritten, csv, catalog, mainRet, errors, exitStatus, runs,
                    serial_db, qr_size_original >>

D_InlineDateCheck ==
    /\ pc = "apply"
    /\ LET r == inline_date_check(mfg_date)
       IN  res' = [fn |-> "inline_date_check", ok |-> r.ok,
                   reason |-> r.reason, out |-> r.value]
    /\ UNCHANGED << pc, entry, product_name, gtin, mfg_date, serial_start, count,
                    i, fs, img, warnings, canvasOpen, pages, cur, pdfSaved, pdf,
                    csvWritten, csv, catalog, mainRet, errors, exitStatus, runs,
                    serial_db, qr_size_original >>

DateNext == D_ValidateManufacturingDate \/ D_InlineDateCheck

SpecDate == DateInit /\ [][DateNext]_vars

(***************************************************************************)
(* Properties                                                              *)
(***************************************************************************)
RECURSIVE Pow10(_)
Pow10(k) == IF k = 0 THEN 1 ELSE 10 * Pow10(k - 1)

\* the number a digit string denotes, by place value
RECURSIVE PlaceSum(_, _)
PlaceSum(s, k) ==
    IF k > Len(s) THEN 0
    ELSE DigitVal(s[k]) * Pow10(Len(s) - k) + PlaceSum(s, k + 1)

AllDigits(s) == \A k \in 1..Len(s) : s[k] \in Digits

\* s is the decimal numeral of n: a minus sign exactly when n < 0, then the
\* digits of |n| without leading zeros
IsDecimalOf(s, n) ==
    /\ s # << >>
    /\ (n < 0) <=> (s[1] = "-")
    /\ LET m == IF n < 0 THEN Tail(s) ELSE s
       IN  /\ m # << >>
           /\ AllDigits(m)
           /\ Len(m) > 1 => m[1] # "0"
           /\ PlaceSum(m, 1) = (IF n < 0 THEN 0 - n ELSE n)

\* s is "(01)" g "(11)" d "(21)" followed by the decimal numeral of n
IsPayload(s, g, d, n) ==
    LET pre == AI01 \o g \o AI11 \o d \o AI21
    IN  /\ Len(s) > Len(pre)
        /\ SubSeq(s, 1, Len(pre)) = pre
        /\ IsDecimalOf(SubSeq(s, Len(pre) + 1, Len(s)), n)

Builders == {"generate_udi_string", "make_udi", "utils_make_udi"}

\* C1: each of the three builders returns "(01)" gtin "(11)" date "(21)"
\* followed by the decimal numeral of the serial and nothing else, so the three
\* return the same string for the same inputs.
C1_PayloadLayout ==
    res.fn \in Builders => IsPayload(res.out, gtin, mfg_date, serial_start)

\* a builder has returned the payload of a negative three-digit serial
C1_Witness ==
    /\ res.fn = "utils_make_udi"
    /\ serial_start <= -100
    /\ gtin = << "0", "4", "7" >>
    /\ Len(mfg_date) = 6
    /\ Len(res.out) = 25

\* the number denoted by the two characters of d at k and k + 1
TwoDigit(d, k) == 10 * DigitVal(d[k]) + DigitVal(d[k + 1])

\* YYMMDD: six decimal digits, MM in 1..12, DD in 1..31
WellFormedDate(d) ==
    /\ Len(d) = 6
    /\ AllDigits(d)
    /\ TwoDigit(d, 3) \in 1..12
    /\ TwoDigit(d, 5) \in 1..31

\* C2: both date validations accept a string exactly when it is six decimal
\* digits with MM in 1..12 and DD in 1..31, and return an accepted string
\* unchanged.
C2_AcceptsExactlyWellFormed ==
    res.fn \in {"validate_manufacturing_date", "inline_date_check"} =>
        /\ res.ok <=> WellFormedDate(mfg_date)
        /\ res.ok => res.out = mfg_date

\* C6: validate_manufacturing_date fails with the length/format reason on every
\* input that is not six characters or has a non-digit, with the month reason
\* exactly on six-digit strings with MM outside 1..12, and with the day reason
\* exactly on six-digit strings with MM in 1..12 and DD outside 1..31.
C6_ReasonClassifies ==
    res.fn = "validate_manufacturing_date" =>
        LET sixDigits == Len(mfg_date) = 6 /\ AllDigits(mfg_date)
        IN  /\ ~sixDigits => (~res.ok /\ res.reason \in {"length", "digits"})
            /\ (res.reason = "month") <=>
                   (sixDigits /\ TwoDigit(mfg_date, 3) \notin 1..12)
            /\ (res.reason = "day") <=>
                   (/\ sixDigits
                    /\ TwoDigit(mfg_date, 3) \in 1..12
                    /\ TwoDigit(mfg_date, 5) \notin 1..31)

IsQr(o) == o.kind = "qr"

IsText(o) == o.kind = "text"

IsImage(o) == o.kind = "image"

\* the payloads of the QR codes placed on a page, in draw order
QrPayloads(page) == SelectSeq(page, IsQr)

\* C3: for count >= 1 a run that passes validation writes a document of
\* exactly count pages, and page i (0-based) carries the payload of serial
\* serial_start + i with the run's gtin and date.
C3_PagesInSerialOrder ==
    (pdfSaved /\ count >= 1) =>
        /\ Len(pdf) = count
        /\ \A k \in 1..Len(pdf) :
              /\ Len(QrPayloads(pdf[k])) = 1
              /\ IsPayload(QrPayloads(pdf[k])[1].s, gtin, mfg_date,
                           serial_start + (k - 1))

\* a two-page document whose serials 9, 10 change width has been saved
C3_Witness ==
    /\ pdfSaved
    /\ entry = "labels"
    /\ serial_start = 9
    /\ count = 2
    /\ Len(pdf) = 2

\* C4: a run with count <= 0 creates and saves no document, writes no CSV file
\* and leaves the catalog as it was.
C4_NonPositiveCountRejected ==
    [][ (count' <= 0 /\ entry' # "none") =>
            /\ ~canvasOpen'
            /\ ~pdfSaved'
            /\ ~csvWritten'
            /\ catalog' = catalog ]_vars

\* the run's validation rejected its inputs, or should have: the count is not
\* positive
RunRejected == errors # << >> \/ count <= 0

\* C5: a run ends with non-zero status whenever validation fails, and with
\* status zero only after the document and the CSV file have been written.
C5_ExitStatus ==
    pc = "exited" =>
        /\ RunRejected => exitStatus # 0
        /\ exitStatus = 0 => (pdfSaved /\ csvWritten)

\* C8: the CSV file holds the header row and then exactly count data rows; row
\* i (0-based) has serial serial_start + i, its UDI column is the payload of
\* its own gtin, date and serial columns, and equals the payload of page i.
C8_RowsInSerialOrder ==
    csvWritten =>
        /\ Len(csv) = 1 + count
        /\ csv[1] = CsvHeader
        /\ \A k \in 2..Len(csv) :
              /\ IsDecimalOf(csv[k][11], serial_start + (k - 2))
              /\ csv[k][12] = AI01 \o csv[k][2] \o AI11 \o csv[k][9]
                                  \o AI21 \o csv[k][11]
              /\ csv[k][2] = gtin
              /\ csv[k][9] = mfg_date
              /\ Len(QrPayloads(pdf[k - 1])) = 1
              /\ csv[k][12] = QrPayloads(pdf[k - 1])[1].s

\* RFC 3986 unreserved characters among those of the model
Unreserved == Digits \cup {"A", "-", "_"}

PercentCode(c) ==
    CASE c = "(" -> << "%", "2", "8" >>
      [] c = ")" -> << "%", "2", "9" >>
      [] c = "+" -> << "%", "2", "B" >>
      [] c = " " -> << "%", "2", "0" >>
      [] c = "%" -> << "%", "2", "5" >>
      [] OTHER -> << c >>

\* percent-encoding of every character outside the unreserved set
RECURSIVE UrlEncode(_)
UrlEncode(s) ==
    IF s = << >> THEN << >>
    ELSE (IF Head(s) \in Unreserved THEN << Head(s) >> ELSE PercentCode(Head(s)))
             \o UrlEncode(Tail(s))

PercentChar(triple) ==
    CASE triple = << "%", "2", "8" >> -> "("
      [] triple = << "%", "2", "9" >> -> ")"
      [] triple = << "%", "2", "B" >> -> "+"
      [] triple = << "%", "2", "0" >> -> " "
      [] triple = << "%", "2", "5" >> -> "%"
      [] OTHER -> "?"

\* decoding of a query parameter: %XY escapes, and + for a blank
RECURSIVE UrlDecode(_)
UrlDecode(s) ==
    IF s = << >> THEN << >>
    ELSE IF Head(s) = "%" /\ Len(s) >= 3
         THEN << PercentChar(SubSeq(s, 1, 3)) >> \o UrlDecode(SubSeq(s, 4, Len(s)))
         ELSE IF Head(s) = "+" THEN << " " >> \o UrlDecode(Tail(s))
         ELSE << Head(s) >> \o UrlDecode(Tail(s))

\* C9: in every data row the QR-Code column is the chart query prefix followed
\* by the percent-encoded payload of the row, and decoding the chl parameter
\* gives the payload back.
C9_UrlEncodedPayload ==
    csvWritten =>
        \A k \in 2..Len(csv) :
            LET url == csv[k][17]
                chl == Tail(url)
            IN  /\ << Head(url) >> = QrUrlPrefix
                /\ chl = UrlEncode(csv[k][12])
                /\ UrlDecode(chl) = csv[k][12]

\* the texts drawn on a page
Texts(page) == { page[k].s : k \in {j \in 1..Len(page) : IsText(page[j])} }

\* the assets drawn on a page
Images(page) == { page[k].s[1] : k \in {j \in 1..Len(page) : IsImage(page[j])} }

\* the three identifier rows and the QR code of serial n are on the page
HasIdentifierRows(page, n) ==
    /\ AI01 \o gtin \in Texts(page)
    /\ AI11 \o mfg_date \in Texts(page)
    /\ \E t \in Texts(page) :
          /\ Len(t) > 4
          /\ SubSeq(t, 1, 4) = AI21
          /\ IsDecimalOf(SubSeq(t, 5, Len(t)), n)
    /\ Len(QrPayloads(page)) = 1
    /\ IsPayload(QrPayloads(page)[1].s, gtin, mfg_date, n)

\* C10: every asset that cannot be loaded, absent or unreadable, gets a warning
\* and no image, and the document still has exactly count pages, each with the
\* identifier rows and the QR code of its serial and with the images of the
\* loadable assets only.
C10_UnloadableAssetsSkipped ==
    (entry = "labels" /\ canvasOpen) =>
        /\ \A a \in Assets : fs[a] # "ok" => (a \in warnings /\ a \notin img)
        /\ pdfSaved =>
              /\ Len(pdf) = count
              /\ \A k \in 1..Len(pdf) :
                    /\ HasIdentifierRows(pdf[k], serial_start + (k - 1))
                    /\ Images(pdf[k]) = {a \in Assets : fs[a] = "ok"}

(***************************************************************************)
(* The descriptive column                                                  *)
(***************************************************************************)
\* the number of text draws of the left column: 4 + 4 + 3 + 3
LeftColumnDraws == 4 + 4 + 3 + 3

\* the baselines of the text draws of the left column of a label page, in draw
\* order: the first LeftColumnDraws text draws of the page
LeftColumnBaselines(page) ==
    [k \in 1..LeftColumnDraws |-> SelectSeq(page, IsText)[k].y]

\* the pages of the label document drawn so far
LabelPagesDrawn ==
    IF entry = "labels" /\ canvasOpen THEN SavedPages(pages, cur) ELSE << >>

\* C11: on every label page the baselines of the successive text draws of the
\* left column (4 product-name lines, 4 description lines, 3 manufacturer
\* lines, 3 EC-rep lines) are strictly decreasing in draw order, so that the
\* first line of each block lies below the last line of the block before it,
\* with or without the logo.
C11_LeftColumnDescends ==
    \A n \in 1..Len(LabelPagesDrawn) :
        \A k \in 1..(LeftColumnDraws - 1) :
            LeftColumnBaselines(LabelPagesDrawn[n])[k]
                > LeftColumnBaselines(LabelPagesDrawn[n])[k + 1]

(***************************************************************************)
(* The UDI icon beside the QR code                                         *)
(***************************************************************************)
IsUdiIcon(o) == o.kind = "image" /\ o.s = << "udi_symbol" >>

\* the UDI icons drawn on a page
UdiIcons(page) == SelectSeq(page, IsUdiIcon)

\* udi_icon_y_adjusted - udi_icon_y: the icon's midpoint above the QR centre
UdiIconRise == 17900000

\* udi_qr_gap + 27.8: the icon's right edge left of qr_x
UdiIconGap == Mul(inch, 8, 100) + 27800000

\* the icon's right edge is the fixed distance UdiIconGap left of the QR code
UdiIconBesideQr(icon, qr) == qr.x - (icon.x + icon.w) = UdiIconGap

\* C12 as stated: whenever the UDI icon is drawn its vertical midpoint equals
\* qr_y + qr_size / 2 and its right edge is one fixed gap left of qr_x, for
\* every QR size.
C12_UdiIconCentredOnQr ==
    \A k \in 1..Len(UdiIcons(cur)) :
        LET icon == UdiIcons(cur)[k]
            qr == QrPayloads(cur)[1]
        IN  /\ icon.y + Half(icon.h) = qr.y + Half(qr.h)
            /\ UdiIconBesideQr(icon, qr)

\* C12 amended: whenever the UDI icon is drawn its vertical midpoint is 17.9 pt
\* above qr_y + qr_size / 2 and its right edge is udi_qr_gap + 27.8 pt left of
\* qr_x, for every QR size.
C12_UdiIconOffsetFromQr ==
    \A k \in 1..Len(UdiIcons(cur)) :
        LET icon == UdiIcons(cur)[k]
            qr == QrPayloads(cur)[1]
        IN  /\ icon.y + Half(icon.h) = qr.y + Half(qr.h) + UdiIconRise
            /\ UdiIconBesideQr(icon, qr)

\* a page with the UDI icon has been laid out around a QR code of another size
\* than the code's
C12_Witness ==
    /\ pc = "laid"
    /\ "udi_symbol" \in img
    /\ Len(UdiIcons(cur)) = 1
    /\ Len(QrPayloads(cur)) = 1
    /\ qr_size_original = Mul(inch, 144, 100)
    /\ QrPayloads(cur)[1].w > Mul(inch, 144, 100)

(***************************************************************************)
(* The persisted last serial                                               *)
(***************************************************************************)
\* a step writes last_serial only in a batch run whose document is saved and
\* which raised no error
LastSerialWrittenAfterSave ==
    catalog' # catalog => (entry = "udi" /\ pdfSaved /\ errors = << >>)

\* a batch run that ends with status 0 leaves serial_start + count - 1
LastSerialIsLastOfRun ==
    (entry' = "udi" /\ pc' = "exited" /\ exitStatus' = 0) =>
        catalog'[product_name'] = serial_start' + count' - 1

\* no step lowers the stored last serial of a product
LastSerialNeverDecreases ==
    \A p \in ProductNames :
        /\ catalog'[p] >= catalog[p]
        /\ serial_db'[p] >= serial_db[p]

\* C13: the persisted last serial of a product is written only after a run's
\* document has been saved, equals serial_start + count - 1 after a successful
\* batch run, and never decreases over any sequence of successful batch runs
\* and update_product_serial calls.
C13_LastSerialRatchet ==
    [][ /\ LastSerialWrittenAfterSave
        /\ LastSerialIsLastOfRun
        /\ LastSerialNeverDecreases ]_vars

====
